---- MODULE Spec2Model ----
(***************************************************************************)
(* rpio-cli: the remote-target discovery / resolution pipeline of          *)
(* `rpio apps` (src/src/main.rs, remote_app.rs, fzf.rs, gum_wrapper.rs).   *)
(*                                                                         *)
(* Strings are sequences of one-character strings, so that formatting,     *)
(* ANSI stripping, splitting and trimming are computed, not assumed.       *)
(* The snapshot file servers.toml is a sequence of TOML lines (records).   *)
(***************************************************************************)
EXTENDS Integers, Sequences, FiniteSets, TLC

(***************************************************************************)
(* Bounds of the model.                                                    *)
(***************************************************************************)
\* timestamps Utc::now() may return during one invocation: 1..MaxClock
MaxClock == 2
\* number of host-declaration files (~/.ssh/config contents) tried
MaxSshConfigs == 3
\* number of different `ls -1 /data` outputs a probed host may answer with
MaxLsOutputs == 3

(***************************************************************************)
(* Strings.                                                                *)
(***************************************************************************)
ESC == "E"
Digits == {"0", "2"}
Whitespace == {" "}

\* byte order of the characters used (str's Ord, which BTreeMap<String,_> follows)
CharOrd(c) ==
  CASE c = ESC -> 27
    [] c = " " -> 32
    [] c = "0" -> 48
    [] c = "2" -> 50
    [] c = ":" -> 58
    [] c = ";" -> 59
    [] c = "H" -> 72
    [] c = "N" -> 78
    [] c = "[" -> 91
    [] c = "a" -> 97
    [] c = "b" -> 98
    [] c = "c" -> 99
    [] c = "m" -> 109
    [] c = "o" -> 111
    [] c = "s" -> 115
    [] c = "t" -> 116
    [] OTHER -> 255

RECURSIVE StrLess(_, _)
StrLess(s, t) ==
  IF t = <<>> THEN FALSE
  ELSE IF s = <<>> THEN TRUE
  ELSE IF CharOrd(Head(s)) < CharOrd(Head(t)) THEN TRUE
  ELSE IF CharOrd(Head(s)) > CharOrd(Head(t)) THEN FALSE
  ELSE StrLess(Tail(s), Tail(t))

None == [some |-> FALSE]
Some(x) == [some |-> TRUE, v |-> x]

\* str::trim
RECURSIVE TrimStart(_)
TrimStart(s) ==
  IF s # <<>> /\ Head(s) \in Whitespace THEN TrimStart(Tail(s)) ELSE s

RECURSIVE TrimEnd(_)
TrimEnd(s) ==
  IF s # <<>> /\ s[Len(s)] \in Whitespace THEN TrimEnd(SubSeq(s, 1, Len(s) - 1)) ELSE s

Trim(s) == TrimEnd(TrimStart(s))

\* str::starts_with
StartsWith(s, p) == Len(s) >= Len(p) /\ SubSeq(s, 1, Len(p)) = p

\* str::split_whitespace: the non-empty maximal runs of non-whitespace
RECURSIVE SplitWhitespaceFrom(_, _, _)
SplitWhitespaceFrom(s, cur, acc) ==
  IF s = <<>> THEN (IF cur = <<>> THEN acc ELSE Append(acc, cur))
  ELSE IF Head(s) \in Whitespace
       THEN SplitWhitespaceFrom(Tail(s), <<>>, IF cur = <<>> THEN acc ELSE Append(acc, cur))
       ELSE SplitWhitespaceFrom(Tail(s), Append(cur, Head(s)), acc)

SplitWhitespace(s) == SplitWhitespaceFrom(s, <<>>, <<>>)

\* str::split_once(':'): split at the FIRST separator
RECURSIVE FirstIndexFrom(_, _, _)
FirstIndexFrom(s, c, i) ==
  IF i > Len(s) THEN 0
  ELSE IF s[i] = c THEN i
  ELSE FirstIndexFrom(s, c, i + 1)

SplitOnce(s, c) ==
  LET i == FirstIndexFrom(s, c, 1)
  IN IF i = 0 THEN None
     ELSE Some([left |-> SubSeq(s, 1, i - 1), right |-> SubSeq(s, i + 1, Len(s))])

\* end of the run [0-9;]* starting at position j
RECURSIVE SkipParams(_, _)
SkipParams(s, j) ==
  IF j <= Len(s) /\ s[j] \in (Digits \cup {";"}) THEN SkipParams(s, j + 1) ELSE j

\* Regex \x1b\[[0-9;]*m replaced by "" (leftmost, non-overlapping matches)
RECURSIVE StripFrom(_, _)
StripFrom(s, i) ==
  IF i > Len(s) THEN <<>>
  ELSE IF s[i] = ESC /\ i + 1 <= Len(s) /\ s[i + 1] = "["
       THEN LET j == SkipParams(s, i + 2)
            IN IF j <= Len(s) /\ s[j] = "m"
               THEN StripFrom(s, j + 1)
               ELSE <<s[i]>> \o StripFrom(s, i + 1)
       ELSE <<s[i]>> \o StripFrom(s, i + 1)

strip_ansi(s) == StripFrom(s, 1)

\* ansi_term: Style::new().dimmed().paint(text), as Display writes it
dim_paint(text) == <<ESC, "[", "2", "m">> \o text \o <<ESC, "[", "0", "m">>

(***************************************************************************)
(* Data model: ServersCache, ServerEntry, DataFolder, RemoteApp.           *)
(***************************************************************************)
DataFolder(p) == [path |-> p, container |-> None]

ServerEntry(t, folders) == [last_updated |-> t, data_folders |-> folders]

EmptyMap == [h \in {} |-> 0]

\* BTreeMap::insert: the last write for a key wins
MapInsert(m, k, e) == [x \in DOMAIN m \cup {k} |-> IF x = k THEN e ELSE m[x]]

ServersCache(m) == [servers |-> m]

empty_cache == ServersCache(EmptyMap)

RemoteApp(h, a) == [host |-> h, app_name |-> a]

\* iteration order of a BTreeMap<String, _>: ascending keys
RECURSIVE SortedKeys(_)
SortedKeys(S) ==
  IF S = {} THEN <<>>
  ELSE LET m == CHOOSE x \in S : \A y \in S \ {x} : StrLess(x, y)
       IN <<m>> \o SortedKeys(S \ {m})

(***************************************************************************)
(* servers.toml as a sequence of lines:                                    *)
(*   [servers]                       (only when the map is empty)          *)
(*   [servers.<h>]                                                         *)
(*   last_updated = <t>                                                    *)
(*   data_folders = []               (when the host has no folder)         *)
(*   [[servers.<h>.data_folders]]                                          *)
(*   path = "<p>"                    (container = None is not written)     *)
(***************************************************************************)
LServers == [t |-> "servers", s |-> <<>>, n |-> 0]
LTable(h) == [t |-> "table", s |-> h, n |-> 0]
LUpdated(k) == [t |-> "last_updated", s |-> <<>>, n |-> k]
LNoFolders == [t |-> "no_folders", s |-> <<>>, n |-> 0]
LFolder(h) == [t |-> "folder", s |-> h, n |-> 0]
LPath(p) == [t |-> "path", s |-> p, n |-> 0]

RECURSIVE FoldersToml(_, _)
FoldersToml(h, folders) ==
  IF folders = <<>> THEN <<>>
  ELSE <<LFolder(h), LPath(Head(folders).path)>> \o FoldersToml(h, Tail(folders))

EntryToml(h, e) ==
  <<LTable(h), LUpdated(e.last_updated)>>
    \o (IF e.data_folders = <<>> THEN <<LNoFolders>> ELSE FoldersToml(h, e.data_folders))

RECURSIVE EntriesToml(_, _)
EntriesToml(m, keys) ==
  IF keys = <<>> THEN <<>>
  ELSE EntryToml(Head(keys), m[Head(keys)]) \o EntriesToml(m, Tail(keys))

\* toml::to_string_pretty(cache)
toml_to_string_pretty(cache) ==
  IF DOMAIN cache.servers = {} THEN <<LServers>>
  ELSE EntriesToml(cache.servers, SortedKeys(DOMAIN cache.servers))

ParseErr == [ok |-> FALSE]

RECURSIVE ParseFolders(_, _, _, _)
ParseFolders(ls, i, h, acc) ==
  IF i <= Len(ls) /\ ls[i].t = "folder"
  THEN IF ls[i].s = h /\ i + 1 <= Len(ls) /\ ls[i + 1].t = "path"
       THEN ParseFolders(ls, i + 2, h, Append(acc, DataFolder(ls[i + 1].s)))
       ELSE ParseErr
  ELSE [ok |-> TRUE, next |-> i, folders |-> acc]

RECURSIVE ParseEntries(_, _, _)
ParseEntries(ls, i, acc) ==
  IF i > Len(ls) THEN [ok |-> TRUE, cache |-> ServersCache(acc)]
  ELSE IF ls[i].t # "table" \/ ls[i].s \in DOMAIN acc THEN ParseErr
  ELSE IF i + 1 > Len(ls) \/ ls[i + 1].t # "last_updated" THEN ParseErr
  ELSE IF i + 2 <= Len(ls) /\ ls[i + 2].t = "no_folders"
       THEN ParseEntries(ls, i + 3,
                         MapInsert(acc, ls[i].s, ServerEntry(ls[i + 1].n, <<>>)))
       ELSE LET f == ParseFolders(ls, i + 2, ls[i].s, <<>>)
            IN IF ~f.ok THEN ParseErr
               ELSE IF f.folders = <<>> THEN ParseErr
               ELSE ParseEntries(ls, f.next,
                                 MapInsert(acc, ls[i].s, ServerEntry(ls[i + 1].n, f.folders)))

\* toml::from_str::<ServersCache>(contents): `servers`, and in every entry
\* `last_updated` and `data_folders`, are required fields
toml_from_str(ls) ==
  IF ls = <<>> THEN ParseErr
  ELSE IF ls[1].t = "servers" THEN ParseEntries(ls, 2, EmptyMap)
  ELSE ParseEntries(ls, 1, EmptyMap)

(***************************************************************************)
(* The snapshot file: missing, present but unreadable, or a text.          *)
(***************************************************************************)
FileMissing == [kind |-> "missing", data |-> <<>>]
FileUnreadable == [kind |-> "unreadable", data |-> <<>>]
FileOf(ls) == [kind |-> "file", data |-> ls]

\* Path::exists on servers_cache_path()
path_exists(file) == file.kind # "missing"

\* fs::read_to_string
read_to_string(file) == IF file.kind = "file" THEN Some(file.data) ELSE None

load_servers_cacheUnwrap(file) ==
  LET contents == read_to_string(file)
  IN IF contents.some THEN toml_from_str(contents.v) ELSE empty_cache

load_servers_cache(file) ==
  LET contents == read_to_string(file)
  IN IF contents.some
     THEN LET parsed == toml_from_str(contents.v)
          IN IF parsed.ok THEN parsed.cache ELSE empty_cache
     ELSE empty_cache

(***************************************************************************)
(* Discovery Agent: read_ssh_hosts, fetch_data_folders.                    *)
(***************************************************************************)
HostKeyword == <<"H", "o", "s", "t", " ">>

\* one line of ~/.ssh/config: Some(host) when it declares a host
ssh_host_of_line(line) ==
  LET l == Trim(line)
  IN IF StartsWith(l, HostKeyword)
     THEN LET words == SplitWhitespace(l)
          IN IF Len(words) >= 2 THEN Some(words[2]) ELSE None
     ELSE None

RECURSIVE FilterMapHosts(_)
FilterMapHosts(fileLines) ==
  IF fileLines = <<>> THEN <<>>
  ELSE LET h == ssh_host_of_line(Head(fileLines))
       IN (IF h.some THEN <<h.v>> ELSE <<>>) \o FilterMapHosts(Tail(fileLines))

\* read_ssh_hosts: Err when the file cannot be read
read_ssh_hosts(config) ==
  IF config.kind = "file" THEN [ok |-> TRUE, hosts |-> FilterMapHosts(config.data)]
  ELSE [ok |-> FALSE]

\* hosts.retain(|h| !ignore_hosts.contains(h))
RECURSIVE RetainFirstNotIgnored(_, _)
RetainFirstNotIgnored(hosts, ignore) ==
  IF hosts = <<>> THEN <<>>
  ELSE IF Head(hosts) \in ignore
       THEN Tail(hosts)
       ELSE <<Head(hosts)>> \o RetainFirstNotIgnored(Tail(hosts), ignore)

RECURSIVE RetainNotIgnored(_, _)
RetainNotIgnored(hosts, ignore) ==
  IF hosts = <<>> THEN <<>>
  ELSE (IF Head(hosts) \in ignore THEN <<>> ELSE <<Head(hosts)>>)
         \o RetainNotIgnored(Tail(hosts), ignore)

\* outcomes of Command::new("ssh")...output()
SpawnErr == [kind |-> "spawn_err", stdout |-> <<>>]
ExitNonZero(out) == [kind |-> "exit_nonzero", stdout |-> out]
ExitOk(out) == [kind |-> "ok", stdout |-> out]

RECURSIVE NonBlankFolders(_)
NonBlankFolders(outLines) ==
  IF outLines = <<>> THEN <<>>
  ELSE (IF Trim(Head(outLines)) = <<>> THEN <<>> ELSE <<DataFolder(Head(outLines))>>)
         \o NonBlankFolders(Tail(outLines))

fetch_data_foldersAnyStatus(output) == NonBlankFolders(output.stdout)

fetch_data_folders(output) ==
  IF output.kind = "ok" THEN NonBlankFolders(output.stdout) ELSE <<>>

(***************************************************************************)
(* Target Selector: build_fzf_lines, parse_selection.                      *)
(***************************************************************************)
\* format!("{}:{}", folder.path, dim.paint(host))
fzf_line(path, host) == path \o <<":">> \o dim_paint(host)

RECURSIVE HostLines(_, _)
HostLines(host, folders) ==
  IF folders = <<>> THEN <<>>
  ELSE <<fzf_line(Head(folders).path, host)>> \o HostLines(host, Tail(folders))

RECURSIVE LinesOf(_, _)
LinesOf(m, keys) ==
  IF keys = <<>> THEN <<>>
  ELSE HostLines(Head(keys), m[Head(keys)].data_folders) \o LinesOf(m, Tail(keys))

RECURSIVE LinesOfFirstFolder(_, _)
LinesOfFirstFolder(m, keys) ==
  IF keys = <<>> THEN <<>>
  ELSE (IF m[Head(keys)].data_folders = <<>> THEN <<>>
        ELSE HostLines(Head(keys), <<Head(m[Head(keys)].data_folders)>>))
         \o LinesOfFirstFolder(m, Tail(keys))

build_fzf_linesFirstFolder(cache) == LinesOfFirstFolder(cache.servers, SortedKeys(DOMAIN cache.servers))

build_fzf_lines(cache) == LinesOf(cache.servers, SortedKeys(DOMAIN cache.servers))

\* impl FromStr for RemoteApp
RemoteApp_from_str(s) ==
  LET parts == SplitOnce(s, ":")
  IN IF parts.some THEN Some(RemoteApp(parts.v.right, parts.v.left)) ELSE None

parse_selection(selected) == RemoteApp_from_str(strip_ansi(selected))

(***************************************************************************)
(* Inputs: the names, files and remote answers the model ranges over.      *)
(***************************************************************************)
HostA == <<"a">>
HostB == <<"b">>
HostC == <<"c">>
Hosts == {HostA, HostB, HostC}

AppS == <<"s">>
AppColon == <<"s", ":", "t">>
AppT == <<"t">>
BlankLine == <<" ">>

\* contents of ~/.ssh/config, by number (0: the file cannot be read)
SshConfigFile(i) ==
  CASE i = 0 -> FileMissing
    [] i = 1 -> FileOf(<< HostKeyword \o HostA, HostKeyword \o HostB >>)
    [] i = 2 -> FileOf(<< <<" ", " ">> \o HostKeyword \o HostA \o <<" ">> \o HostB,
                          <<"H", "o", "s", "t", "N", " ">> \o HostC,
                          HostKeyword \o HostA,
                          HostKeyword \o HostB >>)
    [] i = 3 -> FileOf(<< HostKeyword \o HostB, <<"H", "o", "s", "t">> >>)
    [] OTHER -> FileOf(<< HostKeyword \o HostC >>)

\* standard output of `ls -1 /data` on a host, by number
LsOutput(i) ==
  CASE i = 0 -> <<>>
    [] i = 1 -> <<AppS>>
    [] i = 2 -> <<AppS, AppColon>>
    [] i = 3 -> <<AppT, BlankLine>>
    [] OTHER -> <<AppColon>>

\* every answer a probe of a host can get
ProbeOutcomes ==
  {SpawnErr, ExitNonZero(<<>>), ExitNonZero(LsOutput(1))}
    \cup {ExitOk(LsOutput(i)) : i \in 0..MaxLsOutputs}

\* a fleet in which every probe has one known answer
FleetSteady ==
  [h \in Hosts |-> IF h = HostA THEN {ExitOk(LsOutput(2))}
                   ELSE IF h = HostB THEN {ExitNonZero(<<>>)}
                   ELSE {ExitOk(LsOutput(1))}]

\* a fleet in which every probe can get every answer
FleetAny == [h \in Hosts |-> ProbeOutcomes]

\* a snapshot committed by an earlier invocation
SnapshotOld ==
  ServersCache(MapInsert(MapInsert(EmptyMap, HostA, ServerEntry(1, <<DataFolder(AppS)>>)),
                         HostC, ServerEntry(1, <<>>)))

\* states of servers.toml at the start of an invocation
InitFiles ==
  { FileMissing,
    FileUnreadable,
    FileOf(<<LTable(HostA), LUpdated(1)>>),
    FileOf(<<LServers>>),
    FileOf(toml_to_string_pretty(SnapshotOld)) }

Kinds == {"ssh-session", "tunnel", "retrieve-backup", "retrieve-files", "hosted-url"}

Containers == {<<"c">>, <<"b">>}
ContainerGiven == <<"c">>
PortsGiven == {22}
PortsTyped == {80}

CliCommand(k, c, hp, rp) ==
  [kind |-> k, container_name |-> c, host_port |-> hp, remote_port |-> rp]

\* clap: the subcommands of `rpio apps`
CliCommands ==
  {CliCommand(k, None, None, None) : k \in Kinds \ {"tunnel"}}
    \cup {CliCommand("tunnel", c, hp, rp) :
            c \in {None, Some(ContainerGiven)},
            hp \in {None} \cup {Some(n) : n \in PortsGiven},
            rp \in {None} \cup {Some(n) : n \in PortsGiven}}

\* clap: CommandsCli::Apps
CliApps(cmds) ==
  [refresh : BOOLEAN, dry_run : BOOLEAN,
   host : {None, Some(HostA)}, app_name : {None, Some(AppS)},
   app_command : {None} \cup {Some(c) : c \in cmds}]

Procs == {1, 2}
Self == 1

Running == [kind |-> "running", err |-> ""]
Ok == [kind |-> "ok", err |-> ""]
Err(e) == [kind |-> "err", err |-> e]

SaveIdle == [pc |-> "idle", cache |-> empty_cache, n |-> 0]

Stats0 ==
  [discoveries |-> 0, selections |-> 0, resolutions |-> 0,
   container_queries |-> 0, container_pickers |-> 0, port_prompts |-> {}, hints |-> 0,
   selection |-> "none", listing |-> "none", picker |-> "none"]

VARIABLES
  cli,             \* the parsed command line (CommandsCli::Apps)
  ignore_hosts,    \* Config.ignore_hosts
  sshConfig,       \* ~/.ssh/config
  fleet,           \* per host, the answers its probe can get
  cacheFile,       \* servers.toml
  tmp,             \* per process, its NamedTempFile in the cache folder
  sv,              \* per process, its position in write_servers_cache
  now,             \* Utc::now().timestamp()
  pc,              \* position of the invocation
  caller,          \* who called fetch_servers_cache: "prompt" or "main"
  todo,            \* hosts left in the loop of fetch_servers_cache
  servers,         \* the map fetch_servers_cache is building
  pass_hosts,      \* the hosts the current pass loops over
  probed,          \* the probes of the current pass: <<host, outcome kind>>
  cache,           \* the ServersCache held by prompt_remote_app
  lines,           \* the candidate lines
  remote_app,      \* Option<RemoteApp>
  app_command_cli, \* Option<ApplicationCommandCli> handed to ApplicationCommand::build
  app_command,     \* the ApplicationCommand being built
  result,          \* what main returned
  loaded,          \* the last value load_servers_cache returned
  stats            \* what the invocation did so far

inputs == <<cli, ignore_hosts, sshConfig, fleet>>
storage == <<cacheFile, tmp, sv>>
fetchv == <<now, caller, todo, servers, pass_hosts, probed>>
selv == <<cache, lines, remote_app>>
resv == <<app_command_cli, app_command>>
vars == <<inputs, storage, fetchv, selv, resv, pc, result, loaded, stats>>

InitWith(clis, files, configs, fleets, ignores, saves) ==
  /\ cli \in clis
  /\ ignore_hosts \in ignores
  /\ sshConfig \in configs
  /\ fleet \in fleets
  /\ cacheFile \in files
  /\ tmp = [p \in Procs |-> None]
  /\ sv \in saves
  /\ now = 1
  /\ pc = "start"
  /\ caller = "none"
  /\ todo = <<>>
  /\ servers = EmptyMap
  /\ pass_hosts = <<>>
  /\ probed = <<>>
  /\ cache = empty_cache
  /\ lines = <<>>
  /\ remote_app = None
  /\ app_command_cli = None
  /\ app_command = CliCommand("none", None, None, None)
  /\ result = Running
  /\ loaded = None
  /\ stats = Stats0

Ignores == {{}, {HostA}}

NoSave == {[p \in Procs |-> SaveIdle]}

Init ==
  InitWith(CliApps(CliCommands), InitFiles, {SshConfigFile(0), SshConfigFile(1)},
           {FleetSteady}, Ignores, NoSave)

Fail(e) ==
  /\ pc' = "done"
  /\ result' = Err(e)

(***************************************************************************)
(* main, Commands::build up to the choice of the target.                   *)
(***************************************************************************)
\* init_runtime_dirs can fail; then Commands::build takes the target from the
\* command line when both --host and --app-name are there
MainStart ==
  /\ pc = "start"
  /\ \E dirs_ok \in BOOLEAN :
       IF ~dirs_ok
       THEN Fail("io") /\ remote_app' = remote_app
       ELSE /\ result' = result
            /\ IF cli.host.some /\ cli.app_name.some
               THEN /\ remote_app' = Some(RemoteApp(cli.host.v, cli.app_name.v))
                    /\ pc' = "choose_command"
               ELSE /\ remote_app' = remote_app
                    /\ pc' = "load_or_fetch"
  /\ UNCHANGED <<inputs, storage, fetchv, cache, lines, resv, loaded, stats>>

\* fetch_servers_cache up to its loop
FetchBegin(who) ==
  LET r == read_ssh_hosts(sshConfig)
  IN IF r.ok
     THEN LET hosts == RetainNotIgnored(r.hosts, ignore_hosts)
          IN /\ todo' = hosts
             /\ pass_hosts' = hosts
             /\ servers' = EmptyMap
             /\ probed' = <<>>
             /\ caller' = who
             /\ stats' = [stats EXCEPT !.discoveries = @ + 1]
             /\ pc' = "probe"
             /\ result' = result
     ELSE /\ Fail("io")
          /\ UNCHANGED <<todo, pass_hosts, servers, probed, caller, stats>>

\* load_or_fetch_servers_cache, called by prompt_remote_app
LoadOrFetch ==
  /\ pc = "load_or_fetch"
  /\ IF path_exists(cacheFile)
     THEN /\ cache' = load_servers_cache(cacheFile)
          /\ loaded' = Some(load_servers_cache(cacheFile))
          /\ pc' = "select"
          /\ UNCHANGED <<todo, pass_hosts, servers, probed, caller, result, stats>>
     ELSE /\ FetchBegin("prompt")
          /\ UNCHANGED <<cache, loaded>>
  /\ UNCHANGED <<inputs, storage, now, lines, remote_app, resv>>

\* one iteration of the loop of fetch_servers_cache
ProbeHost ==
  /\ pc = "probe"
  /\ todo # <<>>
  /\ LET host == Head(todo)
     IN IF host = <<>>
        THEN UNCHANGED <<servers, probed, now>>
        ELSE \E output \in fleet[host], t \in {now, now + 1} :
               /\ t <= MaxClock
               /\ now' = t
               /\ servers' = MapInsert(servers, host,
                                       ServerEntry(t, fetch_data_folders(output)))
               /\ probed' = Append(probed, <<host, output.kind>>)
  /\ todo' = Tail(todo)
  /\ UNCHANGED <<inputs, storage, caller, pass_hosts, selv, resv, pc, result, loaded, stats>>

\* fetch_servers_cache returns; its caller calls write_servers_cache
FetchEnd ==
  /\ pc = "probe"
  /\ todo = <<>>
  /\ cache' = IF caller = "prompt" THEN ServersCache(servers) ELSE cache
  /\ sv' = [sv EXCEPT ![Self] = [pc |-> "create", cache |-> ServersCache(servers), n |-> 0]]
  /\ pc' = "save"
  /\ UNCHANGED <<inputs, cacheFile, tmp, fetchv, lines, remote_app, resv, result, loaded, stats>>

(***************************************************************************)
(* write_servers_cache, one step at a time, by process p.                  *)
(***************************************************************************)
\* one write() of tmp.write_all(contents): the bytes go to the temporary file
write_chunkDirect(file, t, line) ==
  [file |-> FileOf((IF file.kind = "file" /\ t.v # <<>> THEN file.data ELSE <<>>) \o <<line>>),
   tmp |-> Some(Append(t.v, line))]

write_chunk(file, t, line) == [file |-> file, tmp |-> Some(Append(t.v, line))]

\* tmp.persist(&cache_file): rename(2) over the canonical path
persistMerge(file, t) ==
  LET before == load_servers_cache(file).servers
      saved == toml_from_str(t.v).cache.servers
      merged == [h \in DOMAIN before \cup DOMAIN saved |->
                   IF h \in DOMAIN saved THEN saved[h] ELSE before[h]]
  IN [file |-> FileOf(toml_to_string_pretty(ServersCache(merged))), tmp |-> None]

persist(file, t) == [file |-> FileOf(t.v), tmp |-> None]

InSave(p) == sv[p].pc \in {"create", "write", "flush", "persist"}

\* ensure_cache_folder, NamedTempFile::new_in
SaveCreate(p) ==
  /\ sv[p].pc = "create"
  /\ \E ok \in BOOLEAN :
       IF ok
       THEN /\ tmp' = [tmp EXCEPT ![p] = Some(<<>>)]
            /\ sv' = [sv EXCEPT ![p].pc = "write"]
       ELSE /\ tmp' = tmp
            /\ sv' = [sv EXCEPT ![p].pc = "err"]
  /\ UNCHANGED cacheFile

\* tmp.write_all: the next write(), or an I/O error (the temporary file is
\* removed when the NamedTempFile is dropped)
SaveWrite(p) ==
  /\ sv[p].pc = "write"
  /\ LET contents == toml_to_string_pretty(sv[p].cache)
         k == sv[p].n + 1
     IN \E ok \in BOOLEAN :
          IF ok
          THEN LET r == write_chunk(cacheFile, tmp[p], contents[k])
               IN /\ cacheFile' = r.file
                  /\ tmp' = [tmp EXCEPT ![p] = r.tmp]
                  /\ sv' = [sv EXCEPT ![p].n = k,
                                      ![p].pc = IF k = Len(contents) THEN "flush" ELSE "write"]
          ELSE /\ cacheFile' = cacheFile
               /\ tmp' = [tmp EXCEPT ![p] = None]
               /\ sv' = [sv EXCEPT ![p].pc = "err"]

\* tmp.flush(): File::flush does nothing and returns Ok
SaveFlush(p) ==
  /\ sv[p].pc = "flush"
  /\ sv' = [sv EXCEPT ![p].pc = "persist"]
  /\ UNCHANGED <<cacheFile, tmp>>

SavePersist(p) ==
  /\ sv[p].pc = "persist"
  /\ \E ok \in BOOLEAN :
       IF ok
       THEN LET r == persist(cacheFile, tmp[p])
            IN /\ cacheFile' = r.file
               /\ tmp' = [tmp EXCEPT ![p] = r.tmp]
               /\ sv' = [sv EXCEPT ![p].pc = "done"]
       ELSE /\ cacheFile' = cacheFile
            /\ tmp' = [tmp EXCEPT ![p] = None]
            /\ sv' = [sv EXCEPT ![p].pc = "err"]

\* the process dies inside write_servers_cache: nothing is cleaned up
CrashProc(p) ==
  /\ InSave(p)
  /\ sv' = [sv EXCEPT ![p].pc = "crashed"]
  /\ UNCHANGED <<cacheFile, tmp>>

rest == <<inputs, fetchv, selv, resv, pc, result, loaded, stats>>

Create == SaveCreate(Self) /\ UNCHANGED rest
Write == SaveWrite(Self) /\ UNCHANGED rest
Flush == SaveFlush(Self) /\ UNCHANGED rest
Persist == SavePersist(Self) /\ UNCHANGED rest
Crash == CrashProc(Self) /\ UNCHANGED rest

\* write_servers_cache returns to load_or_fetch_servers_cache or to main
SaveReturn ==
  /\ pc = "save"
  /\ sv[Self].pc \in {"done", "err"}
  /\ sv' = [sv EXCEPT ![Self] = SaveIdle]
  /\ IF sv[Self].pc = "err" THEN Fail("io")
     ELSE /\ pc' = IF caller = "prompt" THEN "select" ELSE "exec"
          /\ result' = result
  /\ UNCHANGED <<inputs, cacheFile, tmp, fetchv, selv, resv, loaded, stats>>

(***************************************************************************)
(* The pickers and prompts (fzf, gum).                                     *)
(***************************************************************************)
FzfErr == [ok |-> FALSE, sel |-> None]
FzfOk(o) == [ok |-> TRUE, sel |-> o]

\* run_fzf: what the call can return for these lines. fzf prints a line it was
\* given, with or without its colour codes; run_fzf trims it and maps "" to None
run_fzf(ls) ==
  {FzfErr, FzfOk(None)}
    \cup {FzfOk(Some(Trim(ls[i]))) : i \in {j \in 1..Len(ls) : Trim(ls[j]) # <<>>}}
    \cup {FzfOk(Some(Trim(strip_ansi(ls[i])))) :
            i \in {j \in 1..Len(ls) : Trim(strip_ansi(ls[j])) # <<>>}}

\* prompt_number: gum cannot be run, is cancelled, or returns text that parses or not
prompt_number ==
  {[ok |-> FALSE, err |-> "io", n |-> 0],
   [ok |-> FALSE, err |-> "gum_cancelled", n |-> 0],
   [ok |-> FALSE, err |-> "parse_int", n |-> 0]}
    \cup {[ok |-> TRUE, err |-> "", n |-> n] : n \in PortsTyped}

\* choose_application_command
choose_application_command ==
  {[ok |-> FALSE, err |-> "io", cmd |-> None],
   [ok |-> FALSE, err |-> "gum_cancelled", cmd |-> None]}
    \cup {[ok |-> TRUE, err |-> "", cmd |-> Some(CliCommand(k, None, None, None))] : k \in Kinds}

\* answers of `docker compose ps` run through ssh
ContainerOutputs ==
  {SpawnErr, ExitNonZero(<<>>), ExitOk(<<>>)}
    \cup {ExitOk(<<c>>) : c \in Containers}

\* RemoteApp::fetch_containers: the exit status is not looked at
fetch_containersAbsorbing(output) == [ok |-> TRUE, names |-> output.stdout]

fetch_containers(output) ==
  IF output.kind = "spawn_err" THEN [ok |-> FALSE, names |-> <<>>]
  ELSE [ok |-> TRUE, names |-> output.stdout]

(***************************************************************************)
(* prompt_remote_app after the cache is there, and Commands::build's       *)
(* ok_or_else on its result.                                               *)
(***************************************************************************)
SelectTarget ==
  /\ pc = "select"
  /\ lines' = build_fzf_lines(cache)
  /\ IF lines' = <<>>
     THEN /\ Fail("no_apps")
          /\ stats' = [stats EXCEPT !.selections = @ + 1, !.selection = "absent"]
          /\ remote_app' = remote_app
     ELSE \E r \in run_fzf(lines') :
            IF ~r.ok
            THEN /\ Fail("io")
                 /\ stats' = [stats EXCEPT !.selections = @ + 1, !.selection = "failed"]
                 /\ remote_app' = remote_app
            ELSE LET chosen == IF r.sel.some THEN parse_selection(r.sel.v) ELSE None
                 IN IF chosen.some
                    THEN /\ remote_app' = chosen
                         /\ stats' = [stats EXCEPT !.selections = @ + 1,
                                                   !.selection = "some"]
                         /\ pc' = "choose_command"
                         /\ result' = result
                    ELSE /\ Fail("no_apps")
                         /\ stats' = [stats EXCEPT !.selections = @ + 1,
                                                   !.selection = "absent"]
                         /\ remote_app' = remote_app
  /\ UNCHANGED <<inputs, storage, fetchv, cache, resv, loaded>>

(***************************************************************************)
(* Commands::build: the operation kind, then ApplicationCommand::build.    *)
(***************************************************************************)
ChooseCommand ==
  /\ pc = "choose_command"
  /\ \E r \in (IF cli.app_command.some
               THEN {[ok |-> TRUE, err |-> "", cmd |-> cli.app_command]}
               ELSE choose_application_command) :
       IF r.ok
       THEN /\ app_command_cli' = r.cmd
            /\ stats' = [stats EXCEPT !.resolutions = @ + 1]
            /\ app_command' = CliCommand(r.cmd.v.kind, None, None, None)
            /\ pc' = IF r.cmd.v.kind = "tunnel" THEN "resolve_container" ELSE "main"
            /\ result' = result
       ELSE /\ Fail(r.err)
            /\ UNCHANGED <<app_command_cli, app_command, stats>>
  /\ UNCHANGED <<inputs, storage, fetchv, selv, loaded>>

\* whether the container name is taken from the caller
container_suppliedNever(given) == FALSE

container_supplied(given) == given.some

\* Tunnel: the container name
ResolveContainer ==
  /\ pc = "resolve_container"
  /\ IF container_supplied(app_command_cli.v.container_name)
     THEN /\ app_command' = [app_command EXCEPT
                               !.container_name = app_command_cli.v.container_name]
          /\ pc' = "resolve_remote_port"
          /\ UNCHANGED <<result, stats>>
     ELSE \E output \in ContainerOutputs :
            LET listing == fetch_containers(output)
                seen == IF output.kind = "spawn_err" THEN "failed"
                        ELSE IF output.stdout = <<>> THEN "empty"
                        ELSE "some"
            IN IF ~listing.ok
               THEN /\ Fail("io")
                    /\ stats' = [stats EXCEPT !.container_queries = @ + 1,
                                              !.listing = seen]
                    /\ app_command' = app_command
               ELSE \E r \in run_fzf(listing.names) :
                      LET st == [stats EXCEPT
                                   !.container_queries = @ + 1,
                                   !.container_pickers = @ + 1,
                                   !.listing = seen,
                                   !.picker = IF ~r.ok THEN "failed"
                                              ELSE IF r.sel.some THEN "chose"
                                              ELSE "closed"]
                      IN /\ stats' = st
                         /\ IF ~r.ok
                            THEN Fail("io") /\ app_command' = app_command
                            ELSE IF r.sel.some
                            THEN /\ app_command' = [app_command EXCEPT
                                                      !.container_name = r.sel]
                                 /\ pc' = "resolve_remote_port"
                                 /\ result' = result
                            ELSE Fail("no_container") /\ app_command' = app_command
  /\ UNCHANGED <<inputs, storage, fetchv, selv, app_command_cli, loaded>>

\* Tunnel: one port, taken from the caller or asked with prompt_number
ResolvePortCarryOn(given, which, field, next) ==
  IF given.some
  THEN /\ app_command' = [app_command EXCEPT ![field] = given]
       /\ pc' = next
       /\ UNCHANGED <<result, stats>>
  ELSE \E r \in prompt_number :
         /\ stats' = [stats EXCEPT !.port_prompts = @ \cup {which}]
         /\ app_command' = IF r.ok THEN [app_command EXCEPT ![field] = Some(r.n)]
                           ELSE app_command
         /\ pc' = next
         /\ result' = result

ResolvePort(given, which, field, next) ==
  IF given.some
  THEN /\ app_command' = [app_command EXCEPT ![field] = given]
       /\ pc' = next
       /\ UNCHANGED <<result, stats>>
  ELSE \E r \in prompt_number :
         /\ stats' = [stats EXCEPT !.port_prompts = @ \cup {which}]
         /\ IF r.ok
            THEN /\ app_command' = [app_command EXCEPT ![field] = Some(r.n)]
                 /\ pc' = next
                 /\ result' = result
            ELSE Fail(r.err) /\ app_command' = app_command

ResolveRemotePort ==
  /\ pc = "resolve_remote_port"
  /\ ResolvePort(app_command_cli.v.remote_port, "remote", "remote_port", "resolve_host_port")
  /\ UNCHANGED <<inputs, storage, fetchv, selv, app_command_cli, loaded>>

ResolveHostPort ==
  /\ pc = "resolve_host_port"
  /\ ResolvePort(app_command_cli.v.host_port, "host", "host_port", "main")
  /\ UNCHANGED <<inputs, storage, fetchv, selv, app_command_cli, loaded>>

(***************************************************************************)
(* main after Commands::build.                                             *)
(***************************************************************************)
MainRefresh ==
  /\ pc = "main"
  /\ IF cli.dry_run
     THEN /\ Fail("dry_run")
          /\ UNCHANGED <<fetchv, stats>>
     ELSE IF cli.refresh
     THEN /\ FetchBegin("main")
          /\ now' = now
     ELSE /\ pc' = "exec"
          /\ UNCHANGED <<fetchv, result, stats>>
  /\ UNCHANGED <<inputs, storage, selv, resv, loaded>>

\* the condition under which main calls print_application_command
hint_dueTargetOnly ==
  \/ ~cli.host.some
  \/ ~cli.app_name.some

hint_due ==
  \/ ~cli.host.some
  \/ ~cli.app_name.some
  \/ ~cli.app_command.some
  \/ /\ cli.app_command.some
     /\ cli.app_command.v.kind = "tunnel"
     /\ \/ ~cli.app_command.v.container_name.some
        \/ ~cli.app_command.v.host_port.some
        \/ ~cli.app_command.v.remote_port.some

Hint(k) == IF hint_due THEN k ELSE 0

\* the operation runs; the tunnel arm prints the hint before it, every arm after it
Execute ==
  /\ pc = "exec"
  /\ \E outcome \in {"ok", "err", "killed"} :
       /\ outcome = "killed" => app_command.kind = "tunnel"
       /\ LET before == IF app_command.kind = "tunnel" THEN Hint(1) ELSE 0
              after == IF outcome = "ok" THEN Hint(1) ELSE 0
          IN stats' = [stats EXCEPT !.hints = @ + before + after]
       /\ result' = IF outcome = "ok" THEN Ok
                    ELSE IF outcome = "err" THEN Err("io")
                    ELSE [kind |-> "killed", err |-> ""]
  /\ pc' = "done"
  /\ UNCHANGED <<inputs, storage, fetchv, selv, resv, loaded>>

Next ==
  \/ MainStart
  \/ LoadOrFetch
  \/ ProbeHost
  \/ FetchEnd
  \/ Create
  \/ Write
  \/ Flush
  \/ Persist
  \/ Crash
  \/ SaveReturn
  \/ SelectTarget
  \/ ChooseCommand
  \/ ResolveContainer
  \/ ResolveRemotePort
  \/ ResolveHostPort
  \/ MainRefresh
  \/ Execute

Spec == Init /\ [][Next]_vars

(***************************************************************************)
(* The discovery and selection part alone (prompt_remote_app and what it   *)
(* calls), over every host file and every answer of the fleet.             *)
(***************************************************************************)
CliNoTarget ==
  {c \in CliApps({}) : ~c.refresh /\ ~c.dry_run /\ ~(c.host.some /\ c.app_name.some)}

InitDiscovery ==
  InitWith(CliNoTarget, InitFiles, {SshConfigFile(i) : i \in 0..MaxSshConfigs},
           {FleetAny}, Ignores, NoSave)

NextDiscovery ==
  \/ MainStart
  \/ LoadOrFetch
  \/ ProbeHost
  \/ FetchEnd
  \/ Create
  \/ Write
  \/ Flush
  \/ Persist
  \/ Crash
  \/ SaveReturn
  \/ SelectTarget

SpecDiscovery == InitDiscovery /\ [][NextDiscovery]_vars

(***************************************************************************)
(* The Inventory Store alone: invocations saving snapshots, and            *)
(* load_servers_cache called at any moment, on every state of the file.    *)
(***************************************************************************)
SnapshotNew ==
  ServersCache(MapInsert(MapInsert(EmptyMap, HostA,
                                   ServerEntry(2, <<DataFolder(AppS), DataFolder(AppColon)>>)),
                         HostB, ServerEntry(2, <<>>)))

SaveInputs == {empty_cache, SnapshotOld, SnapshotNew}

InitStore ==
  InitWith({CHOOSE c \in CliNoTarget : TRUE}, InitFiles, {SshConfigFile(0)},
           {FleetSteady}, {{}},
           {[p \in Procs |-> [pc |-> "create", cache |-> f[p], n |-> 0]] :
              f \in [Procs -> SaveInputs]})

restStore == <<inputs, fetchv, selv, resv, pc, result, stats>>

StoreCreate == \E p \in Procs : SaveCreate(p) /\ UNCHANGED <<restStore, loaded>>
StoreWrite == \E p \in Procs : SaveWrite(p) /\ UNCHANGED <<restStore, loaded>>
StoreFlush == \E p \in Procs : SaveFlush(p) /\ UNCHANGED <<restStore, loaded>>
StorePersist == \E p \in Procs : SavePersist(p) /\ UNCHANGED <<restStore, loaded>>
StoreCrash == \E p \in Procs : CrashProc(p) /\ UNCHANGED <<restStore, loaded>>

\* load_servers_cache, called while other invocations may be saving
Load ==
  /\ loaded' = Some(load_servers_cache(cacheFile))
  /\ UNCHANGED <<restStore, storage>>

NextStore ==
  \/ StoreCreate
  \/ StoreWrite
  \/ StoreFlush
  \/ StorePersist
  \/ StoreCrash
  \/ Load

SpecStore == InitStore /\ [][NextStore]_vars

(***************************************************************************)
(* Properties.                                                             *)
(***************************************************************************)
Contents(p) == toml_to_string_pretty(sv[p].cache)

\* C1: saving is atomic. Whatever step write_servers_cache is at, and also
\* when the process dies there, a step either leaves servers.toml as it was
\* or is the rename, which puts the complete text of the store being saved
\* there (a text that loads back as that store); nothing partial ever shows.
C1_SaveAtomic ==
  [][cacheFile' # cacheFile =>
       /\ sv[Self].pc = "persist"
       /\ cacheFile' = FileOf(Contents(Self))
       /\ load_servers_cache(cacheFile') = sv[Self].cache]_vars

\* C1 witness: the process died with the temporary file half written, and
\* the snapshot committed earlier is still what servers.toml holds
C1_CrashedMidWrite ==
  /\ sv[Self].pc = "crashed"
  /\ tmp[Self].some
  /\ Len(tmp[Self].v) > 0
  /\ Len(tmp[Self].v) < Len(Contents(Self))
  /\ cacheFile = FileOf(toml_to_string_pretty(SnapshotOld))

\* C2: load_servers_cache never fails and never touches the file: for a
\* missing, an unreadable and an unparsable servers.toml it returns the empty
\* store, and in every case it returns a store, not an error.
C2_LoadNeverFails ==
  [][loaded' # loaded =>
       /\ loaded'.some
       /\ DOMAIN loaded'.v = {"servers"}
       /\ cacheFile' = cacheFile
       /\ (cacheFile.kind = "missing" => loaded'.v = empty_cache)
       /\ (cacheFile.kind = "unreadable" => loaded'.v = empty_cache)
       /\ (cacheFile.kind = "file" /\ ~toml_from_str(cacheFile.data).ok
             => loaded'.v = empty_cache)]_vars

\* C2 witness: a truncated servers.toml was loaded as the empty store
C2_CorruptLoadedEmpty ==
  /\ loaded = Some(empty_cache)
  /\ cacheFile.kind = "file"
  /\ cacheFile.data # <<>>
  /\ ~toml_from_str(cacheFile.data).ok

\* C3: the map a refresh builds never has an ignored host or the empty
\* string as a key, whatever the host file declares and however often.
C3_IgnoredNeverKey ==
  \A h \in DOMAIN servers : h \notin ignore_hosts /\ h # <<>>

\* C3 witness: the host file declares "a" twice and "b", "a" is ignored, and
\* the pass ended with "b" as the only key
C3_IgnoredTwiceDeclared ==
  /\ pc = "save"
  /\ ignore_hosts = {HostA}
  /\ read_ssh_hosts(sshConfig).hosts = <<HostA, HostA, HostB>>
  /\ DOMAIN servers = {HostB}

ProbedHosts == [i \in 1..Len(probed) |-> probed[i][1]]

\* C4: a failing probe is absorbed. Every probe, whatever its outcome, puts
\* an entry for its host into the map with last_updated set to the time read
\* after it, with no data folder when the probe did not succeed; the pass
\* goes on with the next host and returns no error, so that at its end every
\* host of the list was probed, in order, and is a key of the map.
C4_ProbeFailureAbsorbed ==
  /\ [](pc = "probe" => ProbedHosts \o todo = pass_hosts /\ result = Running)
  /\ [](\A i \in 1..Len(probed) : probed[i][1] \in DOMAIN servers)
  /\ [][probed' # probed =>
          LET h == probed'[Len(probed')][1]
              k == probed'[Len(probed')][2]
          IN /\ h = Head(todo)
             /\ h \in DOMAIN servers'
             /\ servers'[h].last_updated = now'
             /\ servers'[h].last_updated >= now
             /\ (k # "ok" => servers'[h].data_folders = <<>>)
             /\ pc' = "probe"
             /\ result' = Running]_vars

\* C4 witness: a pass ended in which a probe failed, a later probe of another
\* host succeeded and found folders, and both hosts have their entry
C4_FailedThenProbedOn ==
  /\ pc = "save"
  /\ \E i, j \in 1..Len(probed) :
       /\ i < j
       /\ probed[i][2] # "ok"
       /\ probed[j][2] = "ok"
       /\ probed[i][1] # probed[j][1]
       /\ servers[probed[i][1]].data_folders = <<>>
       /\ servers[probed[j][1]].data_folders # <<>>

RECURSIVE SumFolders(_, _)
SumFolders(m, S) ==
  IF S = {} THEN 0
  ELSE LET h == CHOOSE x \in S : TRUE
       IN Len(m[h].data_folders) + SumFolders(m, S \ {h})

FolderCount(c) == SumFolders(c.servers, DOMAIN c.servers)

\* C5: build_fzf_lines returns as many lines as there are data folders over
\* all hosts: for the inventory the candidates were built from, and for every
\* map a refresh builds on its way.
C5_LineCount ==
  /\ stats.selections > 0 => Len(lines) = FolderCount(cache)
  /\ Len(build_fzf_lines(ServersCache(servers))) = FolderCount(ServersCache(servers))

\* C5 witness: candidates were built from two hosts with three folders
C5_ThreeLines ==
  /\ stats.selections > 0
  /\ Cardinality(DOMAIN cache.servers) = 2
  /\ FolderCount(cache) = 3
  /\ Len(lines) = 3

\* C6: parse_selection is the left inverse of build_fzf_lines: the line
\* rendered for a (host, folder) pair of the inventory resolves to exactly
\* that host and that folder path, and a line without ':' resolves to none.
C6_ResolveLeftInverse ==
  /\ \A h \in DOMAIN cache.servers :
       \A i \in 1..Len(cache.servers[h].data_folders) :
         LET path == cache.servers[h].data_folders[i].path
         IN parse_selection(fzf_line(path, h)) = Some(RemoteApp(h, path))
  /\ \A l \in {AppS, AppS \o dim_paint(HostA)} : parse_selection(l) = None

TunnelRequest == app_command_cli.some /\ app_command_cli.v.kind = "tunnel"

Resolved ==
  /\ app_command.kind = "tunnel"
  /\ app_command.container_name.some
  /\ app_command.remote_port.some
  /\ app_command.host_port.some

\* C7: what the caller supplied is kept and never asked for. For a Tunnel
\* request with the container name supplied no container listing is run and
\* no container picker opened; with a port supplied no prompt is issued for
\* that port; and the resolved operation carries every supplied value as is.
C7_SuppliedKept ==
  TunnelRequest =>
    LET req == app_command_cli.v
    IN /\ req.container_name.some =>
            /\ stats.container_queries = 0
            /\ stats.container_pickers = 0
            /\ (Resolved => app_command.container_name = req.container_name)
       /\ req.remote_port.some =>
            /\ "remote" \notin stats.port_prompts
            /\ (Resolved => app_command.remote_port = req.remote_port)
       /\ req.host_port.some =>
            /\ "host" \notin stats.port_prompts
            /\ (Resolved => app_command.host_port = req.host_port)

\* C7 witness: a Tunnel request with only the container name supplied was
\* resolved: both ports were prompted for, and no container was listed
C7_ContainerSuppliedResolved ==
  /\ TunnelRequest
  /\ Resolved
  /\ app_command_cli.v.container_name = Some(ContainerGiven)
  /\ ~app_command_cli.v.remote_port.some
  /\ ~app_command_cli.v.host_port.some
  /\ stats.port_prompts = {"remote", "host"}
  /\ stats.container_queries = 0

C9_AbsentSelectionClean ==
  stats.selection = "absent" => result.kind # "err"

\* C10: one invocation performs at most one discovery pass, at most one
\* target selection and at most one parameter resolution.
C10_AtMostOnce ==
  /\ stats.discoveries <= 1
  /\ stats.selections <= 1
  /\ stats.resolutions <= 1

\* a step of a discovery pass (its start, a probe) or of the saving of a
\* snapshot (the temporary file, the rename)
DiscoveryOrSaveStep ==
  \/ stats'.discoveries # stats.discoveries
  \/ probed' # probed
  \/ tmp' # tmp
  \/ cacheFile' # cacheFile

\* C11: the steps of one invocation run in the order discovery, inventory
\* store, target selection, parameter resolution, execution: every step of a
\* discovery pass and of the saving of its result is taken before the
\* candidate list is built and before any parameter resolution has started,
\* and the candidate list is built before any resolution.
C11_PipelineOrder ==
  /\ [][DiscoveryOrSaveStep => stats.selections = 0 /\ stats.resolutions = 0]_vars
  /\ [][stats'.selections # stats.selections => stats.resolutions = 0]_vars

\* the hosts a pass looped over, as a set
PassHosts == {pass_hosts[i] : i \in 1..Len(pass_hosts)}

\* the refresh forced by the caller (main, `if refresh`) has been run and saved
RefreshDone ==
  /\ cli.refresh
  /\ \/ pc = "exec"
     \/ pc = "done" /\ result.kind \in {"ok", "killed"}

ResolveSteps == {"resolve_container", "resolve_remote_port", "resolve_host_port"}

\* ApplicationCommand::build has returned Ok to Commands::build
Built == stats.resolutions > 0 /\ pc \notin ResolveSteps \cup {"done"}

\* C13: the parameters of a Tunnel are resolved in the order container name,
\* remote port, local port, each by its branch: a value that was supplied is
\* taken, a missing container name is listed on the host and picked, a missing
\* port is prompted for. A step that fails (no container obtained, a cancelled
\* or non-numeric port prompt, a tool that cannot be run) ends the resolution
\* with its error: no later step is attempted, nothing is asked afterwards,
\* and no operation is handed on; an operation is handed on only with all
\* three values resolved.
C13_TunnelOrder ==
  /\ [](TunnelRequest =>
          LET req == app_command_cli.v
          IN /\ app_command.remote_port.some => app_command.container_name.some
             /\ app_command.host_port.some => app_command.remote_port.some
             /\ stats.port_prompts # {} => app_command.container_name.some
             /\ "host" \in stats.port_prompts => app_command.remote_port.some
             /\ app_command.container_name.some =>
                  IF req.container_name.some
                  THEN stats.container_queries = 0 /\ stats.container_pickers = 0
                  ELSE stats.container_queries = 1 /\ stats.picker = "chose"
             /\ app_command.remote_port.some =>
                  (req.remote_port.some <=> "remote" \notin stats.port_prompts)
             /\ app_command.host_port.some =>
                  (req.host_port.some <=> "host" \notin stats.port_prompts)
             /\ (Built \/ result.kind \in {"ok", "killed"}) => Resolved
             /\ pc = "done" /\ ~Resolved => result.kind = "err" /\ stats.hints = 0)
  /\ [][(pc \in ResolveSteps) =>
         (\/ /\ pc = "resolve_container"
             /\ pc' = "resolve_remote_port"
             /\ app_command'.container_name.some
             /\ result' = Running
          \/ /\ pc = "resolve_remote_port"
             /\ pc' = "resolve_host_port"
             /\ app_command'.remote_port.some
             /\ app_command'.container_name = app_command.container_name
             /\ result' = Running
          \/ /\ pc = "resolve_host_port"
             /\ pc' = "main"
             /\ app_command'.host_port.some
             /\ app_command'.container_name = app_command.container_name
             /\ app_command'.remote_port = app_command.remote_port
             /\ result' = Running
          \/ /\ pc' = "done"
             /\ app_command' = app_command
             /\ ~Resolved'
             /\ result' \in (IF pc = "resolve_container"
                             THEN {Err("io"), Err("no_container")}
                             ELSE {Err("io"), Err("gum_cancelled"), Err("parse_int")}))]_vars
  /\ [][pc # "done"]_vars

\* C13 witness: the container was picked on the host, the prompt for the
\* remote port was cancelled: the resolution ended with that error, the local
\* port, which was not supplied either, was never asked for
C13_CancelledAtRemotePort ==
  /\ TunnelRequest
  /\ pc = "done"
  /\ result = Err("gum_cancelled")
  /\ stats.picker = "chose"
  /\ app_command.container_name.some
  /\ ~app_command.remote_port.some
  /\ ~app_command_cli.v.host_port.some
  /\ stats.port_prompts = {"remote"}

IsPrefix(s, t) == Len(s) <= Len(t) /\ SubSeq(t, 1, Len(s)) = s

\* C14: with two invocations saving at once and no lock, under every
\* interleaving of their steps servers.toml changes only by the rename of one
\* of them, which puts that invocation's complete text there (a text that
\* loads back as its store): the file is always the previous one or the whole
\* store of one saver, never a mixture or a part. Each temporary file holds
\* text of its own saver only. Once savers have renamed, the file is the
\* store of one of them: the other's snapshot is overwritten, nothing else
\* is lost.
C14_ConcurrentSavesWhole ==
  /\ [][cacheFile' # cacheFile =>
          \E p \in Procs :
            /\ sv[p].pc = "persist"
            /\ sv'[p].pc = "done"
            /\ tmp[p] = Some(Contents(p))
            /\ cacheFile' = FileOf(Contents(p))
            /\ load_servers_cache(cacheFile') = sv[p].cache]_vars
  /\ [](\A p \in Procs : tmp[p].some => IsPrefix(tmp[p].v, Contents(p)))
  /\ []((\E p \in Procs : sv[p].pc = "done") =>
          \E q \in Procs : sv[q].pc = "done" /\ cacheFile = FileOf(Contents(q)))

\* C14 witness: both invocations renamed their different snapshots; the file
\* holds the first one's store whole, the second one's is overwritten
C14_Clobbered ==
  /\ \A p \in Procs : sv[p].pc = "done"
  /\ sv[1].cache = SnapshotOld
  /\ sv[2].cache = SnapshotNew
  /\ cacheFile = FileOf(toml_to_string_pretty(SnapshotOld))

\* the operation of the invocation ran to its end (a tunnel ends with Ctrl+C)
Completed == pc = "done" /\ result.kind \in {"ok", "killed"}

\* a value of the operation was asked of the operator in this invocation
Interactive ==
  \/ stats.selections > 0
  \/ app_command_cli.some /\ ~cli.app_command.some
  \/ stats.container_pickers > 0
  \/ stats.port_prompts # {}

\* the command line leaves a value of the operation open
NotFullySpecified ==
  \/ ~cli.host.some
  \/ ~cli.app_name.some
  \/ ~cli.app_command.some
  \/ /\ cli.app_command.some
     /\ cli.app_command.v.kind = "tunnel"
     /\ \E f \in {"container_name", "host_port", "remote_port"} :
          ~cli.app_command.v[f].some

\* C15: in an invocation that completes its operation the "next time you can
\* run" hint is printed if and only if a value was obtained interactively,
\* which is so exactly when the host or the app name was not given, or no
\* operation kind was given, or the operation is a Tunnel given without its
\* container name, host port or remote port; an invocation given everything
\* never prints the hint, whatever its outcome.
C15_HintIffInteractive ==
  /\ Completed => (stats.hints > 0 <=> Interactive)
  /\ Completed => (Interactive <=> NotFullySpecified)
  /\ ~NotFullySpecified => stats.hints = 0

\* C15 witness: a Tunnel given host, app name, container name and remote
\* port but no host port ran to its end: the host port was prompted for and
\* the hint was printed
C15_HintAfterPortPrompt ==
  /\ Completed
  /\ cli.host.some /\ cli.app_name.some /\ cli.app_command.some
  /\ cli.app_command.v.kind = "tunnel"
  /\ cli.app_command.v.container_name.some
  /\ cli.app_command.v.remote_port.some
  /\ ~cli.app_command.v.host_port.some
  /\ stats.port_prompts = {"host"}
  /\ stats.hints > 0
====
